---- MODULE Spec2Model ----
(***************************************************************************)
(* Model of rapidscan/webapp/app.py: the scan registry, the two output     *)
(* pumps of a scan, the SSE stream generator, and the stop / status        *)
(* handlers.  Text is a sequence of one-character strings; the byte 0x1B   *)
(* is written "ESC" and the newline "LF".                                  *)
(***************************************************************************)
EXTENDS Integers, Sequences, FiniteSets, TLC

(***************************************************************************)
(* Bounds of the model.                                                    *)
(***************************************************************************)
MaxScans == 1      \* sessions StartScan may create
MaxOut == 2        \* stdout lines all processes may write, in total
MaxErr == 1        \* stderr lines all processes may write, in total
MaxSubs == 2       \* concurrent /stream requests
MaxLiveOut == 1    \* stdout lines in the specifications with fairness or every handler
MaxPumpErr == 2    \* stderr lines in the specification of the two pumps
MaxMultiScans == 2 \* sessions in the specification of several sessions

(***************************************************************************)
(* Character classes of the two regular expressions.                       *)
(***************************************************************************)
ESC == "ESC"
LF == "LF"

DigitChars == {"0", "1", "2", "3", "4", "5", "6", "7", "8", "9"}

\* [0-?] : 0x30 .. 0x3F
ParamBytes == DigitChars \cup {":", ";", "<", "=", ">", "?"}

\* [ -/] : 0x20 .. 0x2F
InterBytes == {" ", "!", "\"", "#", "$", "%", "&", "'", "(", ")", "*", "+",
               ",", "-", ".", "/"}

\* [@-~] : 0x40 .. 0x7E (the grave accent, 0x60, cannot be written in a string here)
FinalBytes == {"@", "A", "B", "C", "D", "E", "F", "G", "H", "I", "J", "K", "L",
               "M", "N", "O", "P", "Q", "R", "S", "T", "U", "V", "W", "X", "Y",
               "Z", "[", "\\", "]", "^", "_", "a", "b", "c", "d", "e", "f",
               "g", "h", "i", "j", "k", "l", "m", "n", "o", "p", "q", "r", "s",
               "t", "u", "v", "w", "x", "y", "z", "{", "|", "}", "~"}

\* \s of the progress pattern, for the characters a sanitized line can hold
SpaceChars == {" ", "\t", "\r", LF}

(***************************************************************************)
(* Sequence helpers.                                                       *)
(***************************************************************************)
\* first index >= i of s whose character is not in class (Len(s)+1 if none)
RECURSIVE SkipClass(_, _, _)
SkipClass(s, i, class) ==
    IF i <= Len(s) /\ s[i] \in class THEN SkipClass(s, i + 1, class) ELSE i

Slice(s, i, j) == IF i > j THEN <<>> ELSE SubSeq(s, i, j)

\* str.rstrip('\n')
RECURSIVE RStripNL(_)
RStripNL(s) ==
    IF Len(s) > 0 /\ s[Len(s)] = LF THEN RStripNL(SubSeq(s, 1, Len(s) - 1)) ELSE s

\* ansi_escape matched at position i: index of the final byte, 0 if no match
AnsiEndAt(s, i) ==
    IF i + 1 <= Len(s) /\ s[i] = ESC /\ s[i + 1] = "["
    THEN LET k == SkipClass(s, SkipClass(s, i + 2, ParamBytes), InterBytes)
         IN  IF k <= Len(s) /\ s[k] \in FinalBytes THEN k ELSE 0
    ELSE 0

\* ansi_escape.sub('', s) from position i on
RECURSIVE AnsiSubFrom(_, _)
AnsiSubFrom(s, i) ==
    IF i > Len(s) THEN <<>>
    ELSE IF AnsiEndAt(s, i) > 0 THEN AnsiSubFrom(s, AnsiEndAt(s, i) + 1)
    ELSE <<s[i]>> \o AnsiSubFrom(s, i + 1)

\* clean = ansi_escape.sub('', line.rstrip('\n'))
Sanitize(line) == AnsiSubFrom(RStripNL(line), 1)

(***************************************************************************)
(* Progress pattern  Deploying\s+(\d+)\/(\d+)                              *)
(***************************************************************************)
DeployingWord == <<"D", "e", "p", "l", "o", "y", "i", "n", "g">>

NoMatch == [ok |-> FALSE, cur |-> <<>>, total |-> <<>>]

\* DeployingAt with \s in place of \s+ : exactly one white-space character
DeployingAtOneSpaceM(s, i) ==
    LET w  == i + Len(DeployingWord)
        d1 == w + 1
        sl == SkipClass(s, d1, DigitChars)
        e2 == SkipClass(s, sl + 1, DigitChars)
    IN  IF /\ w <= Len(s)
           /\ SubSeq(s, i, w - 1) = DeployingWord
           /\ s[w] \in SpaceChars
           /\ sl > d1
           /\ sl <= Len(s)
           /\ s[sl] = "/"
           /\ e2 > sl + 1
        THEN [ok |-> TRUE, cur |-> Slice(s, d1, sl - 1), total |-> Slice(s, sl + 1, e2 - 1)]
        ELSE [ok |-> FALSE, cur |-> <<>>, total |-> <<>>]

\* the pattern matched with its first character at position i
DeployingAt(s, i) ==
    LET w  == i + Len(DeployingWord)            \* first char after the word
        d1 == SkipClass(s, w, SpaceChars)       \* first char after \s+
        sl == SkipClass(s, d1, DigitChars)      \* must be the slash
        e2 == SkipClass(s, sl + 1, DigitChars)  \* first char after group 2
    IN  IF /\ w - 1 <= Len(s)
           /\ SubSeq(s, i, w - 1) = DeployingWord
           /\ d1 > w
           /\ sl > d1
           /\ sl <= Len(s)
           /\ s[sl] = "/"
           /\ e2 > sl + 1
        THEN [ok |-> TRUE, cur |-> Slice(s, d1, sl - 1), total |-> Slice(s, sl + 1, e2 - 1)]
        ELSE NoMatch

\* re.search: the leftmost position where the pattern matches
RECURSIVE SearchFrom(_, _)
SearchFrom(s, i) ==
    IF i > Len(s) THEN NoMatch
    ELSE IF DeployingAt(s, i).ok THEN DeployingAt(s, i)
    ELSE SearchFrom(s, i + 1)

ReSearch(clean) == SearchFrom(clean, 1)

DigitVal(c) ==
    CASE c = "0" -> 0 [] c = "1" -> 1 [] c = "2" -> 2 [] c = "3" -> 3 [] c = "4" -> 4
      [] c = "5" -> 5 [] c = "6" -> 6 [] c = "7" -> 7 [] c = "8" -> 8 [] c = "9" -> 9

\* int(m.group(k)) for a string of decimal digits
RECURSIVE ParseInt(_)
ParseInt(ds) ==
    IF Len(ds) = 0 THEN 0
    ELSE 10 * ParseInt(SubSeq(ds, 1, Len(ds) - 1)) + DigitVal(ds[Len(ds)])

\* int() raises ValueError for a digit string over the interpreter's limit of
\* 4300 digits; the except clause then skips the update
IntOk(ds) == Len(ds) <= 4300

\* lines 27-36: the pair to store, or "no update"
Extract(clean) ==
    LET m == ReSearch(clean)
    IN  IF m.ok /\ IntOk(m.cur) /\ IntOk(m.total)
        THEN [ok |-> TRUE, cur |-> ParseInt(m.cur), total |-> ParseInt(m.total)]
        ELSE [ok |-> FALSE, cur |-> 0, total |-> 0]

(***************************************************************************)
(* Text the modelled callers and processes use.                            *)
(***************************************************************************)
\* "Deploying 1/10\n"
LineDeploy1 == DeployingWord \o <<" ", "1", "/", "1", "0", LF>>

\* "\x1b[1;32mDeploying  5/10 | foo\x1b[0m\n"
LineDeploy5 ==
    <<ESC, "[", "1", ";", "3", "2", "m">> \o DeployingWord
        \o <<" ", " ", "5", "/", "1", "0", " ", "|", " ", "f", "o", "o">>
        \o <<ESC, "[", "0", "m", LF>>

\* "Deploying abc/81\n"
LineAbc == DeployingWord \o <<" ", "a", "b", "c", "/", "8", "1", LF>>

\* "no number here\n"
LineText == <<"n", "o", " ", "n", "u", "m", "b", "e", "r", " ", "h", "e", "r", "e", LF>>

\* "Deploying 3/81 | foo\n"
LineDeploy3 == DeployingWord \o <<" ", "3", "/", "8", "1", " ", "|", " ", "f", "o", "o", LF>>

\* "warn\n"
LineWarn == <<"w", "a", "r", "n", LF>>

\* lines a process may write to its stdout / stderr
OutLines == {LineDeploy1, LineDeploy5, LineAbc, LineText}
ErrLines == {LineDeploy3, LineWarn}
\* the lines of the specifications where the text matters less than the threads
StreamLines == {LineDeploy5}
StreamErrLines == {LineDeploy3}
\* the stdout lines of the specification of the two pumps
PumpLines == {LineDeploy1, LineText}

\* the two text functions tabulated over the lines the processes can write
CleanOf == [l \in OutLines \cup ErrLines |-> Sanitize(l)]
ExtractOf == [l \in OutLines \cup ErrLines |-> Extract(Sanitize(l))]

\* target values a client may post
Targets == {<<>>, <<" ">>, <<" ", "h", " ">>}

\* str.strip()
RECURSIVE RStripWs(_)
RStripWs(s) ==
    IF Len(s) > 0 /\ s[Len(s)] \in SpaceChars THEN RStripWs(SubSeq(s, 1, Len(s) - 1)) ELSE s

StrStrip(s) == LET i == SkipClass(s, 1, SpaceChars) IN RStripWs(Slice(s, i, Len(s)))

(***************************************************************************)
(* The command line of the scan process (lines 58-65).                     *)
(***************************************************************************)
\* skip values a client may post: "a, b  c", "", "  ", ",,", ",a", " x\t, "
SkipABC == <<"a", ",", " ", "b", " ", " ", "c">>
SkipNone == <<>>
SkipBlank == <<" ", " ">>
SkipCommas == <<",", ",">>
SkipLeadComma == <<",", "a">>
SkipPadded == <<" ", "x", "\t", ",", " ">>

Skips == {SkipABC, SkipNone, SkipBlank, SkipCommas, SkipLeadComma, SkipPadded}
\* the skip value of the specifications that are not about the command
NoSkips == {SkipNone}

\* [,\s] of the split pattern
SepChars == {","} \cup SpaceChars

\* re.split(r"[,\s]+", s) from position i on, cur being the piece begun
RECURSIVE SplitFrom(_, _, _)
SplitFrom(s, i, cur) ==
    IF i > Len(s) THEN <<cur>>
    ELSE IF s[i] \in SepChars
         THEN <<cur>> \o SplitFrom(s, SkipClass(s, i, SepChars), <<>>)
         ELSE SplitFrom(s, i + 1, Append(cur, s[i]))

ReSplit(s) == SplitFrom(s, 1, <<>>)

\* SkipArgs without the `if tok:` test
RECURSIVE SkipArgsKeepEmptyM(_)
SkipArgsKeepEmptyM(toks) ==
    IF toks = <<>> THEN <<>>
    ELSE <<(<<"-", "-", "s", "k", "i", "p">>), StrStrip(Head(toks))>>
             \o SkipArgsKeepEmptyM(Tail(toks))

\* lines 61-64: cmd.extend(['--skip', tok]) for every piece not empty after strip
RECURSIVE SkipArgs(_)
SkipArgs(toks) ==
    IF toks = <<>> THEN <<>>
    ELSE (IF StrStrip(Head(toks)) # <<>>
          THEN <<(<<"-", "-", "s", "k", "i", "p">>), StrStrip(Head(toks))>>
          ELSE <<>>) \o SkipArgs(Tail(toks))

\* os.path.join(BASE_DIR, 'rapidscan.py'), the directory left out
RAPIDSCAN_PATH == <<"r", "a", "p", "i", "d", "s", "c", "a", "n", ".", "p", "y">>

\* lines 58-65, for the stripped target and skip strings
BuildCmd(target, skip_raw) ==
    <<(<<"p", "y", "t", "h", "o", "n", "3">>), (<<"-", "u">>), RAPIDSCAN_PATH, (<<"-", "n">>)>>
        \o (IF skip_raw # <<>> THEN SkipArgs(ReSplit(skip_raw)) ELSE <<>>)
        \o <<target>>

(***************************************************************************)
(* State.                                                                  *)
(***************************************************************************)
ScanIds == 1 .. MaxScans          \* values uuid4().hex can return
ReqIds == ScanIds \cup {0}        \* ids a client may ask for; 0 is never issued
Subs == 1 .. MaxSubs
MultiIds == 1 .. MaxMultiScans    \* values of uuid4().hex where several scans are started

VARIABLES
    scans,     \* registry: scan_id -> [progress, total, done, queue]
    proc,      \* scan_id -> the subprocess: [state, stdout, stderr, sigint, cmd, data]
    lock,      \* Free, or the thread inside a `with lock:` block
    pump,      \* scan_id -> the _enqueue_output thread: [pc, raw, clean, cur, total, ...]
    epump,     \* scan_id -> the _enqueue_err thread: [pc, clean]
    sub,       \* one /stream request and its event_stream generator per subscriber
    st,        \* the /status request handler
    sp,        \* last response of /stop
    resp,      \* last response of /start
    outSent,   \* history: scan_id -> lines the process wrote to stdout
    errSent,   \* history: scan_id -> lines the process wrote to stderr
    log        \* history: scan_id -> every item put on the queue, in order

vars == <<scans, proc, lock, pump, epump, sub, st, sp, resp, outSent, errSent, log>>

Free == <<"free", 0>>

NoItem == [n |-> 0, src |-> "", line |-> <<>>]

IdleSub == [pc |-> "idle", sid |-> 0, item |-> NoItem, done |-> FALSE, prog |-> 0,
            total |-> 0, got |-> <<>>, from |-> 0, snapUpd |-> 0, ncomplete |-> 0]

\* the stdout pump between two lines; nupd counts its progress updates
IdlePump(n) == [pc |-> "read", raw |-> <<>>, clean |-> <<>>, cur |-> 0, total |-> 0,
                prev |-> <<0, 0>>, nupd |-> n]

IdleStatus == [pc |-> "idle", sid |-> 0, progress |-> 0, total |-> 0, done |-> FALSE,
               sawDone |-> FALSE]

Init ==
    /\ scans = <<>>
    /\ proc = <<>>
    /\ lock = Free
    /\ pump = <<>>
    /\ epump = <<>>
    /\ sub = [c \in Subs |-> IdleSub]
    /\ st = IdleStatus
    /\ sp = "none"
    /\ resp = [kind |-> "none", id |-> 0, error |-> ""]
    /\ outSent = <<>>
    /\ errSent = <<>>
    /\ log = <<>>

Registered == DOMAIN scans

\* number of lines in all the histories of h
RECURSIVE TotalLen(_, _)
TotalLen(h, ids) ==
    IF ids = {} THEN 0
    ELSE LET i == CHOOSE x \in ids : TRUE IN Len(h[i]) + TotalLen(h, ids \ {i})

(***************************************************************************)
(* POST /start                                                             *)
(***************************************************************************)
\* StartInvalid without the return: the scan is started with the empty target
StartInvalidRegisterM(target) ==
    /\ StrStrip(target) = <<>>
    /\ lock = Free
    /\ \E id \in ScanIds \ Registered :
           /\ scans' = (id :> [progress |-> 0, total |-> 0, done |-> FALSE, queue |-> <<>>])
                            @@ scans
           /\ proc' = (id :> [state |-> "running", stdout |-> <<>>, stderr |-> <<>>,
                              sigint |-> FALSE, cmd |-> BuildCmd(<<>>, <<>>),
                              data |-> [target |-> target, skip |-> <<>>]]) @@ proc
           /\ pump' = (id :> IdlePump(0)) @@ pump
           /\ epump' = (id :> [pc |-> "read", clean |-> <<>>]) @@ epump
           /\ outSent' = (id :> <<>>) @@ outSent
           /\ errSent' = (id :> <<>>) @@ errSent
           /\ log' = (id :> <<>>) @@ log
           /\ resp' = [kind |-> "ok", id |-> id, error |-> ""]
    /\ UNCHANGED <<lock, sub, st, sp>>

\* lines 52-53: empty target after strip
StartInvalid(target) ==
    /\ StrStrip(target) = <<>>
    /\ resp' = [kind |-> "error", id |-> 0, error |-> "target is required"]
    /\ UNCHANGED <<scans, proc, lock, pump, epump, sub, st, sp, outSent, errSent, log>>

\* StartOk with uuid4 returning a value it has returned before
StartOkReuseM(target, skip, id) ==
    /\ StrStrip(target) # <<>>
    /\ lock = Free
    /\ scans' = (id :> [progress |-> 0, total |-> 0, done |-> FALSE, queue |-> <<>>]) @@ scans
    /\ proc' = (id :> [state |-> "running", stdout |-> <<>>, stderr |-> <<>>,
                       sigint |-> FALSE,
                       cmd |-> BuildCmd(StrStrip(target), StrStrip(skip)),
                       data |-> [target |-> target, skip |-> skip]]) @@ proc
    /\ pump' = (id :> IdlePump(0)) @@ pump
    /\ epump' = (id :> [pc |-> "read", clean |-> <<>>]) @@ epump
    /\ outSent' = (id :> <<>>) @@ outSent
    /\ errSent' = (id :> <<>>) @@ errSent
    /\ log' = (id :> <<>>) @@ log
    /\ resp' = [kind |-> "ok", id |-> id, error |-> ""]
    /\ UNCHANGED <<lock, sub, st, sp>>

\* lines 55-87: spawn, register under the lock, start the two pump threads
StartOk(target, skip, id) ==
    /\ StrStrip(target) # <<>>
    /\ id \notin Registered
    /\ lock = Free
    /\ scans' = (id :> [progress |-> 0, total |-> 0, done |-> FALSE, queue |-> <<>>]) @@ scans
    /\ proc' = (id :> [state |-> "running", stdout |-> <<>>, stderr |-> <<>>,
                       sigint |-> FALSE,
                       cmd |-> BuildCmd(StrStrip(target), StrStrip(skip)),
                       data |-> [target |-> target, skip |-> skip]]) @@ proc
    /\ pump' = (id :> IdlePump(0)) @@ pump
    /\ epump' = (id :> [pc |-> "read", clean |-> <<>>]) @@ epump
    /\ outSent' = (id :> <<>>) @@ outSent
    /\ errSent' = (id :> <<>>) @@ errSent
    /\ log' = (id :> <<>>) @@ log
    /\ resp' = [kind |-> "ok", id |-> id, error |-> ""]
    /\ UNCHANGED <<lock, sub, st, sp>>

start_scan(ids, skips) == \E target \in Targets :
    \/ StartInvalid(target)
    \/ \E skip \in skips, id \in ids : StartOk(target, skip, id)

(***************************************************************************)
(* The subprocess.                                                         *)
(***************************************************************************)
ProcWriteOut(id, line, maxOut) ==
    /\ proc[id].state = "running"
    /\ TotalLen(outSent, Registered) < maxOut
    /\ proc' = [proc EXCEPT ![id].stdout = Append(@, line)]
    /\ outSent' = [outSent EXCEPT ![id] = Append(@, line)]
    /\ UNCHANGED <<scans, lock, pump, epump, sub, st, sp, resp, errSent, log>>

ProcWriteErr(id, line, maxErr) ==
    /\ proc[id].state = "running"
    /\ TotalLen(errSent, Registered) < maxErr
    /\ proc' = [proc EXCEPT ![id].stderr = Append(@, line)]
    /\ errSent' = [errSent EXCEPT ![id] = Append(@, line)]
    /\ UNCHANGED <<scans, lock, pump, epump, sub, st, sp, resp, outSent, log>>

\* the process ends, on its own or after a signal; its ends of both pipes close,
\* what it wrote stays readable
ProcExit(id) ==
    /\ proc[id].state = "running"
    /\ proc' = [proc EXCEPT ![id].state = "exited"]
    /\ UNCHANGED <<scans, lock, pump, epump, sub, st, sp, resp, outSent, errSent, log>>

Process(outLines, errLines, maxOut, maxErr) == \E id \in Registered :
    \/ \E line \in outLines : ProcWriteOut(id, line, maxOut)
    \/ \E line \in errLines : ProcWriteErr(id, line, maxErr)
    \/ ProcExit(id)

(***************************************************************************)
(* _enqueue_output: the stdout pump thread.                                *)
(***************************************************************************)
Item(id, src, clean) == [n |-> Len(log[id]) + 1, src |-> src, line |-> clean]

\* q.put(clean)
QueuePut(id, src, clean) ==
    /\ scans' = [scans EXCEPT ![id].queue = Append(@, Item(id, src, clean))]
    /\ log' = [log EXCEPT ![id] = Append(@, Item(id, src, clean))]

\* lines 23-31: readline returns a line; sanitize, match, parse
PumpRead(id) ==
    /\ pump[id].pc = "read"
    /\ proc[id].stdout # <<>>
    /\ LET raw == Head(proc[id].stdout)
           clean == CleanOf[raw]
           ext == ExtractOf[raw]
       IN  pump' = [pump EXCEPT ![id] =
                [@ EXCEPT !.pc = IF ext.ok THEN "progress" ELSE "put",
                          !.raw = raw, !.clean = clean,
                          !.cur = ext.cur, !.total = ext.total,
                          !.prev = <<scans[id].progress, scans[id].total>>]]
    /\ proc' = [proc EXCEPT ![id].stdout = Tail(@)]
    /\ UNCHANGED <<scans, lock, epump, sub, st, sp, resp, outSent, errSent, log>>

\* PumpProgress storing the total where the current belongs
PumpProgressSwapM(id) ==
    /\ pump[id].pc = "progress"
    /\ lock = Free
    /\ lock' = <<"out", id>>
    /\ scans' = [scans EXCEPT ![id].progress = pump[id].total]
    /\ pump' = [pump EXCEPT ![id].pc = "total", ![id].nupd = @ + 1]
    /\ UNCHANGED <<proc, epump, sub, st, sp, resp, outSent, errSent, log>>

\* lines 32-33: with lock: scan_meta['progress'] = cur
PumpProgress(id) ==
    /\ pump[id].pc = "progress"
    /\ lock = Free
    /\ lock' = <<"out", id>>
    /\ scans' = [scans EXCEPT ![id].progress = pump[id].cur]
    /\ pump' = [pump EXCEPT ![id].pc = "total", ![id].nupd = @ + 1]
    /\ UNCHANGED <<proc, epump, sub, st, sp, resp, outSent, errSent, log>>

\* PumpTotal leaving the `with lock:` block without releasing the lock
PumpTotalKeepLockM(id) ==
    /\ pump[id].pc = "total"
    /\ lock = <<"out", id>>
    /\ scans' = [scans EXCEPT ![id].total = pump[id].total]
    /\ pump' = [pump EXCEPT ![id].pc = "put"]
    /\ UNCHANGED <<proc, lock, epump, sub, st, sp, resp, outSent, errSent, log>>

\* line 34: scan_meta['total'] = total, and the lock is released
PumpTotal(id) ==
    /\ pump[id].pc = "total"
    /\ lock = <<"out", id>>
    /\ lock' = Free
    /\ scans' = [scans EXCEPT ![id].total = pump[id].total]
    /\ pump' = [pump EXCEPT ![id].pc = "put"]
    /\ UNCHANGED <<proc, epump, sub, st, sp, resp, outSent, errSent, log>>

\* line 37: q.put(clean)
PumpPut(id) ==
    /\ pump[id].pc = "put"
    /\ QueuePut(id, "out", pump[id].clean)
    /\ pump' = [pump EXCEPT ![id] = IdlePump(pump[id].nupd)]
    /\ UNCHANGED <<proc, lock, epump, sub, st, sp, resp, outSent, errSent>>

\* PumpEof leaving the read loop whenever no line is waiting, and not waiting
\* for the process
PumpEofEarlyM(id) ==
    /\ pump[id].pc = "read"
    /\ proc[id].stdout = <<>>
    /\ pump' = [pump EXCEPT ![id].pc = "done"]
    /\ UNCHANGED <<scans, proc, lock, epump, sub, st, sp, resp, outSent, errSent, log>>

\* lines 23, 38-39: readline returns '' at end of stream; proc.stdout.close();
\* proc.wait() returns once the process has exited
PumpEof(id) ==
    /\ pump[id].pc = "read"
    /\ proc[id].stdout = <<>>
    /\ proc[id].state = "exited"
    /\ pump' = [pump EXCEPT ![id].pc = "done"]
    /\ UNCHANGED <<scans, proc, lock, epump, sub, st, sp, resp, outSent, errSent, log>>

\* PumpDone ending the thread without setting done
PumpDoneForgetM(id) ==
    /\ pump[id].pc = "done"
    /\ lock = Free
    /\ pump' = [pump EXCEPT ![id].pc = "end"]
    /\ UNCHANGED <<scans, proc, lock, epump, sub, st, sp, resp, outSent, errSent, log>>

\* lines 40-41: with lock: scan_meta['done'] = True
PumpDone(id) ==
    /\ pump[id].pc = "done"
    /\ lock = Free
    /\ scans' = [scans EXCEPT ![id].done = TRUE]
    /\ pump' = [pump EXCEPT ![id].pc = "end"]
    /\ UNCHANGED <<proc, lock, epump, sub, st, sp, resp, outSent, errSent, log>>

_enqueue_output == \E id \in Registered :
    \/ PumpRead(id)
    \/ PumpProgress(id)
    \/ PumpTotal(id)
    \/ PumpPut(id)
    \/ PumpEof(id)
    \/ PumpDone(id)

(***************************************************************************)
(* _enqueue_err: the stderr pump thread.                                   *)
(***************************************************************************)
\* ErrRead taking the newest line of the pipe instead of the oldest
ErrReadNewestM(id) ==
    /\ epump[id].pc = "read"
    /\ proc[id].stderr # <<>>
    /\ epump' = [epump EXCEPT ![id] =
                    [pc |-> "put", clean |-> CleanOf[proc[id].stderr[Len(proc[id].stderr)]]]]
    /\ proc' = [proc EXCEPT ![id].stderr = SubSeq(@, 1, Len(@) - 1)]
    /\ UNCHANGED <<scans, lock, pump, sub, st, sp, resp, outSent, errSent, log>>

\* lines 81-82
ErrRead(id) ==
    /\ epump[id].pc = "read"
    /\ proc[id].stderr # <<>>
    /\ epump' = [epump EXCEPT ![id] = [pc |-> "put", clean |-> CleanOf[Head(proc[id].stderr)]]]
    /\ proc' = [proc EXCEPT ![id].stderr = Tail(@)]
    /\ UNCHANGED <<scans, lock, pump, sub, st, sp, resp, outSent, errSent, log>>

\* ErrPut after the progress parsing of the stdout pump
ErrPutProgressM(id) ==
    /\ epump[id].pc = "put"
    /\ lock = Free
    /\ LET ext == Extract(epump[id].clean)
       IN  scans' = [scans EXCEPT
                        ![id].queue = Append(@, Item(id, "err", epump[id].clean)),
                        ![id].progress = IF ext.ok THEN ext.cur ELSE @,
                        ![id].total = IF ext.ok THEN ext.total ELSE @]
    /\ log' = [log EXCEPT ![id] = Append(@, Item(id, "err", epump[id].clean))]
    /\ epump' = [epump EXCEPT ![id] = [pc |-> "read", clean |-> <<>>]]
    /\ UNCHANGED <<proc, lock, pump, sub, st, sp, resp, outSent, errSent>>

\* line 83
ErrPut(id) ==
    /\ epump[id].pc = "put"
    /\ QueuePut(id, "err", epump[id].clean)
    /\ epump' = [epump EXCEPT ![id] = [pc |-> "read", clean |-> <<>>]]
    /\ UNCHANGED <<proc, lock, pump, sub, st, sp, resp, outSent, errSent>>

\* lines 81, 84: end of stream; proc.stderr.close()
ErrEof(id) ==
    /\ epump[id].pc = "read"
    /\ proc[id].stderr = <<>>
    /\ proc[id].state = "exited"
    /\ epump' = [epump EXCEPT ![id].pc = "end"]
    /\ UNCHANGED <<scans, proc, lock, pump, sub, st, sp, resp, outSent, errSent, log>>

_enqueue_err == \E id \in Registered :
    \/ ErrRead(id)
    \/ ErrPut(id)
    \/ ErrEof(id)

(***************************************************************************)
(* GET /stream/<scan_id> and its generator event_stream.                   *)
(***************************************************************************)
\* StreamNotFound answering an unknown id with a stream that ends at once
StreamNotFoundCompleteM(c, id) ==
    /\ sub[c].pc = "idle"
    /\ lock = Free
    /\ id \notin Registered
    /\ sub' = [sub EXCEPT ![c].pc = "complete", ![c].sid = id]
    /\ UNCHANGED <<scans, proc, lock, pump, epump, st, sp, resp, outSent, errSent, log>>

\* lines 91-94: unknown id
StreamNotFound(c, id) ==
    /\ sub[c].pc = "idle"
    /\ lock = Free
    /\ id \notin Registered
    /\ sub' = [sub EXCEPT ![c].pc = "notfound"]
    /\ UNCHANGED <<scans, proc, lock, pump, epump, st, sp, resp, outSent, errSent, log>>

\* lines 91-97, 114: the lookup succeeds and the generator is handed to the response
StreamOpen(c, id) ==
    /\ sub[c].pc = "idle"
    /\ lock = Free
    /\ id \in Registered
    /\ sub' = [sub EXCEPT ![c].pc = "get", ![c].sid = id, ![c].from = Len(log[id])]
    /\ UNCHANGED <<scans, proc, lock, pump, epump, st, sp, resp, outSent, errSent, log>>

\* SubTake reading the oldest item and leaving it in the queue
SubTakePeekM(c) ==
    /\ sub[c].pc = "get"
    /\ scans[sub[c].sid].queue # <<>>
    /\ sub' = [sub EXCEPT ![c].pc = "data", ![c].item = Head(scans[sub[c].sid].queue)]
    /\ UNCHANGED <<scans, proc, lock, pump, epump, st, sp, resp, outSent, errSent, log>>

\* line 100: q.get returns the oldest item and removes it
SubTake(c) ==
    /\ sub[c].pc = "get"
    /\ scans[sub[c].sid].queue # <<>>
    /\ sub' = [sub EXCEPT ![c].pc = "data", ![c].item = Head(scans[sub[c].sid].queue)]
    /\ scans' = [scans EXCEPT ![sub[c].sid].queue = Tail(@)]
    /\ UNCHANGED <<proc, lock, pump, epump, st, sp, resp, outSent, errSent, log>>

\* lines 101-102: queue.Empty after the 0.5 s wait
SubTimeout(c) ==
    /\ sub[c].pc = "get"
    /\ scans[sub[c].sid].queue = <<>>
    /\ sub' = [sub EXCEPT ![c].pc = "snap"]
    /\ UNCHANGED <<scans, proc, lock, pump, epump, st, sp, resp, outSent, errSent, log>>

\* SubData going back to q.get: no snapshot and no progress event after the line
SubDataSkipProgressM(c) ==
    /\ sub[c].pc = "data"
    /\ sub' = [sub EXCEPT ![c].pc = "get", ![c].got = Append(@, sub[c].item),
                          ![c].item = NoItem]
    /\ UNCHANGED <<scans, proc, lock, pump, epump, st, sp, resp, outSent, errSent, log>>

\* line 104: yield the data event
SubData(c) ==
    /\ sub[c].pc = "data"
    /\ sub' = [sub EXCEPT ![c].pc = "snap", ![c].got = Append(@, sub[c].item),
                          ![c].item = NoItem]
    /\ UNCHANGED <<scans, proc, lock, pump, epump, st, sp, resp, outSent, errSent, log>>

\* SubSnap with the `with lock:` forgotten
SubSnapNoLockM(c) ==
    /\ sub[c].pc = "snap"
    /\ sub' = [sub EXCEPT ![c].pc = "prog",
                          ![c].done = scans[sub[c].sid].done,
                          ![c].prog = scans[sub[c].sid].progress,
                          ![c].total = scans[sub[c].sid].total,
                          ![c].snapUpd = pump[sub[c].sid].nupd]
    /\ UNCHANGED <<scans, proc, lock, pump, epump, st, sp, resp, outSent, errSent, log>>

\* lines 105-108: with lock: done, prog, total = meta[...]
SubSnap(c) ==
    /\ sub[c].pc = "snap"
    /\ lock = Free
    /\ sub' = [sub EXCEPT ![c].pc = "prog",
                          ![c].done = scans[sub[c].sid].done,
                          ![c].prog = scans[sub[c].sid].progress,
                          ![c].total = scans[sub[c].sid].total,
                          ![c].snapUpd = pump[sub[c].sid].nupd]
    /\ UNCHANGED <<scans, proc, lock, pump, epump, st, sp, resp, outSent, errSent, log>>

\* line 110: yield the progress event
SubProgress(c) ==
    /\ sub[c].pc = "prog"
    /\ sub' = [sub EXCEPT ![c].pc = "check"]
    /\ UNCHANGED <<scans, proc, lock, pump, epump, st, sp, resp, outSent, errSent, log>>

\* SubCheck with the q.empty() test forgotten
SubCheckDoneOnlyM(c) ==
    /\ sub[c].pc = "check"
    /\ sub' = [sub EXCEPT ![c].pc = IF sub[c].done THEN "complete" ELSE "get",
                          ![c].done = FALSE, ![c].prog = 0, ![c].total = 0,
                          ![c].snapUpd = 0]
    /\ UNCHANGED <<scans, proc, lock, pump, epump, st, sp, resp, outSent, errSent, log>>

\* line 111: if done and q.empty(); the snapshot is not read again
SubCheck(c) ==
    /\ sub[c].pc = "check"
    /\ sub' = [sub EXCEPT ![c].pc =
                  IF sub[c].done /\ scans[sub[c].sid].queue = <<>> THEN "complete" ELSE "get",
                          ![c].done = FALSE, ![c].prog = 0, ![c].total = 0,
                          ![c].snapUpd = 0]
    /\ UNCHANGED <<scans, proc, lock, pump, epump, st, sp, resp, outSent, errSent, log>>

\* lines 112-113: yield the complete event; break
SubComplete(c) ==
    /\ sub[c].pc = "complete"
    /\ sub' = [sub EXCEPT ![c].pc = "closed", ![c].ncomplete = @ + 1]
    /\ UNCHANGED <<scans, proc, lock, pump, epump, st, sp, resp, outSent, errSent, log>>

event_stream(c) ==
    \/ SubTake(c)
    \/ SubTimeout(c)
    \/ SubData(c)
    \/ SubSnap(c)
    \/ SubProgress(c)
    \/ SubCheck(c)
    \/ SubComplete(c)

stream(c) ==
    \/ \E id \in ReqIds : StreamNotFound(c, id) \/ StreamOpen(c, id)
    \/ event_stream(c)

(***************************************************************************)
(* GET /status/<scan_id>                                                   *)
(***************************************************************************)
\* lines 134-137
StatusLookup(id) ==
    /\ st.pc \in {"idle", "ret", "notfound"}
    /\ lock = Free
    /\ st' = IF id \in Registered
             THEN [IdleStatus EXCEPT !.pc = "progress", !.sid = id,
                                     !.sawDone = scans[id].done]
             ELSE [IdleStatus EXCEPT !.pc = "notfound"]
    /\ UNCHANGED <<scans, proc, lock, pump, epump, sub, sp, resp, outSent, errSent, log>>

\* line 138: the three reads of the response, in order, outside the lock
StatusProgress ==
    /\ st.pc = "progress"
    /\ st' = [st EXCEPT !.pc = "total", !.progress = scans[st.sid].progress]
    /\ UNCHANGED <<scans, proc, lock, pump, epump, sub, sp, resp, outSent, errSent, log>>

StatusTotal ==
    /\ st.pc = "total"
    /\ st' = [st EXCEPT !.pc = "done", !.total = scans[st.sid].total]
    /\ UNCHANGED <<scans, proc, lock, pump, epump, sub, sp, resp, outSent, errSent, log>>

StatusDone ==
    /\ st.pc = "done"
    /\ st' = [st EXCEPT !.pc = "ret", !.done = scans[st.sid].done]
    /\ UNCHANGED <<scans, proc, lock, pump, epump, sub, sp, resp, outSent, errSent, log>>

status ==
    \/ \E id \in ReqIds : StatusLookup(id)
    \/ StatusProgress
    \/ StatusTotal
    \/ StatusDone

(***************************************************************************)
(* POST /stop/<scan_id>                                                    *)
(***************************************************************************)
\* lines 118-121: unknown id
StopNotFound(id) ==
    /\ lock = Free
    /\ id \notin Registered
    /\ sp' = "notfound"
    /\ UNCHANGED <<scans, proc, lock, pump, epump, sub, st, resp, outSent, errSent, log>>

\* StopSignal emptying the queue of the scan as well
StopSignalFlushM(id) ==
    /\ lock = Free
    /\ id \in Registered
    /\ proc' = [proc EXCEPT ![id].sigint = @ \/ proc[id].state = "running"]
    /\ scans' = [scans EXCEPT ![id].queue = <<>>]
    /\ sp' = "stopping"
    /\ UNCHANGED <<lock, pump, epump, sub, st, resp, outSent, errSent, log>>

\* lines 118-130: SIGINT reaches a live process; on a finished one the call, and
\* the terminate() tried after an exception, have no effect
StopSignal(id) ==
    /\ lock = Free
    /\ id \in Registered
    /\ proc' = [proc EXCEPT ![id].sigint = @ \/ proc[id].state = "running"]
    /\ sp' = "stopping"
    /\ UNCHANGED <<scans, lock, pump, epump, sub, st, resp, outSent, errSent, log>>

stop == \E id \in ReqIds : StopNotFound(id) \/ StopSignal(id)

(***************************************************************************)
(* Specification.                                                          *)
(***************************************************************************)
\* a scan at work and the clients streaming it
Next ==
    \/ start_scan(ScanIds, NoSkips)
    \/ Process(StreamLines, StreamErrLines, MaxOut, MaxErr)
    \/ _enqueue_output
    \/ _enqueue_err
    \/ \E c \in Subs : (\E id \in Registered : StreamOpen(c, id)) \/ event_stream(c)

Spec == Init /\ [][Next]_vars

\* a scan at work and clients polling and stopping it
NextReq ==
    \/ start_scan(ScanIds, NoSkips)
    \/ Process(OutLines, StreamErrLines, MaxOut, MaxErr)
    \/ _enqueue_output
    \/ _enqueue_err
    \/ status
    \/ stop

SpecReq == Init /\ [][NextReq]_vars

\* the streaming scan with a client stopping it, under the scheduling the threads
\* get: every pump and every generator keeps running, and the process ends
NextLive ==
    \/ start_scan(ScanIds, NoSkips)
    \/ Process(StreamLines, StreamErrLines, MaxLiveOut, MaxErr)
    \/ _enqueue_output
    \/ _enqueue_err
    \/ \E c \in Subs : (\E id \in Registered : StreamOpen(c, id)) \/ event_stream(c)
    \/ \E id \in Registered : StopSignal(id)

Fairness ==
    /\ \A id \in ScanIds : WF_vars(id \in Registered /\ ProcExit(id))
    /\ WF_vars(_enqueue_output)
    /\ WF_vars(_enqueue_err)
    /\ \A c \in Subs : WF_vars(event_stream(c))

SpecLive == Init /\ [][NextLive]_vars /\ Fairness

\* the two pumps of a scan and one client draining the queue
NextPumps ==
    \/ start_scan(ScanIds, NoSkips)
    \/ Process(PumpLines, ErrLines, MaxOut, MaxPumpErr)
    \/ _enqueue_output
    \/ _enqueue_err
    \/ (\E id \in Registered : StreamOpen(1, id)) \/ event_stream(1)

SpecPumps == Init /\ [][NextPumps]_vars

\* every handler and every thread of a scan
NextAll ==
    \/ start_scan(ScanIds, NoSkips)
    \/ Process(StreamLines, StreamErrLines, MaxLiveOut, MaxErr)
    \/ _enqueue_output
    \/ _enqueue_err
    \/ stream(1)
    \/ status
    \/ stop

SpecAll == Init /\ [][NextAll]_vars

\* scans started with every skip list, their processes and pumps
NextCmd ==
    \/ start_scan(ScanIds, Skips)
    \/ Process(StreamLines, StreamErrLines, MaxLiveOut, MaxErr)
    \/ _enqueue_output
    \/ _enqueue_err

SpecCmd == Init /\ [][NextCmd]_vars

\* several scans whose processes write nothing, and every kind of request
NextRegistry ==
    \/ start_scan(MultiIds, NoSkips)
    \/ \E id \in Registered : ProcExit(id) \/ PumpEof(id) \/ PumpDone(id) \/ ErrEof(id)
    \/ \E id \in MultiIds \cup {0} : StreamNotFound(1, id) \/ StreamOpen(1, id)
    \/ SubTimeout(1) \/ SubSnap(1) \/ SubProgress(1) \/ SubCheck(1) \/ SubComplete(1)
    \/ (\E id \in MultiIds : StatusLookup(id)) \/ StatusProgress \/ StatusTotal \/ StatusDone
    \/ \E id \in MultiIds : StopNotFound(id) \/ StopSignal(id)

SpecRegistry == Init /\ [][NextRegistry]_vars

\* several scans whose processes write to stdout only, and the clients streaming them
NextMulti ==
    \/ start_scan(MultiIds, NoSkips)
    \/ \E id \in Registered :
           (\E line \in StreamLines : ProcWriteOut(id, line, MaxLiveOut)) \/ ProcExit(id)
    \/ _enqueue_output
    \/ \E id \in Registered : ErrEof(id)
    \/ \E c \in Subs : (\E id \in Registered : StreamOpen(c, id)) \/ event_stream(c)

SpecMulti == Init /\ [][NextMulti]_vars

(***************************************************************************)
(* What the claims are stated over.                                        *)
(***************************************************************************)
Attached(c) == sub[c].pc \notin {"idle", "notfound"}

\* sequence numbers of the items subscriber c has emitted as data events
GotNs(c) == {sub[c].got[i].n : i \in 1 .. Len(sub[c].got)}

\* sequence numbers of the items waiting in the queue of scan id
QueueNs(id) == {scans[id].queue[i].n : i \in 1 .. Len(scans[id].queue)}

\* the progress pair of scan id
PairOf(id) == <<scans[id].progress, scans[id].total>>

\* the text each modelled line must be after sanitizing, written out by hand
ExpectedClean(line) ==
    CASE line = LineDeploy1 -> <<"D", "e", "p", "l", "o", "y", "i", "n", "g", " ", "1", "/", "1", "0">>
      [] line = LineDeploy5 -> <<"D", "e", "p", "l", "o", "y", "i", "n", "g", " ", " ", "5", "/", "1", "0",
                                 " ", "|", " ", "f", "o", "o">>
      [] line = LineAbc -> <<"D", "e", "p", "l", "o", "y", "i", "n", "g", " ", "a", "b", "c", "/", "8", "1">>
      [] line = LineText -> <<"n", "o", " ", "n", "u", "m", "b", "e", "r", " ", "h", "e", "r", "e">>
      [] line = LineDeploy3 -> <<"D", "e", "p", "l", "o", "y", "i", "n", "g", " ", "3", "/", "8", "1",
                                 " ", "|", " ", "f", "o", "o">>
      [] line = LineWarn -> <<"w", "a", "r", "n">>

\* the progress pair each modelled line must give, <<>> for "no update"
ExpectedPair(line) ==
    CASE line = LineDeploy1 -> <<1, 10>>
      [] line = LineDeploy5 -> <<5, 10>>
      [] line = LineDeploy3 -> <<3, 81>>
      [] OTHER -> <<>>

\* the pairs the stdout lines written so far can have set, and the initial one
PairsOf(id) ==
    {<<0, 0>>} \cup ({ExpectedPair(outSent[id][i]) : i \in 1 .. Len(outSent[id])} \ {<<>>})

IsOut(item) == item.src = "out"
IsErr(item) == item.src = "err"

\* the items one pump has put on the queue of scan id, in the order of the puts
OutLog(id) == SelectSeq(log[id], IsOut)
ErrLog(id) == SelectSeq(log[id], IsErr)

\* put is the sanitized text of the first Len(put) lines of sent, in order
IsPrefixOfSent(put, sent) ==
    /\ Len(put) <= Len(sent)
    /\ \A i \in 1 .. Len(put) : put[i].line = ExpectedClean(sent[i])

(***************************************************************************)
(* C1: two subscribers of a running scan each emit every line appended     *)
(* after they attached.  Stated by what it needs at every moment: while    *)
(* the process runs, a line appended after subscriber c attached is still  *)
(* in the queue, or c holds it or has emitted it; once another subscriber  *)
(* has taken it, c can never emit it.                                      *)
(***************************************************************************)
C1_BroadcastLog ==
    \A c \in Subs :
        (Attached(c) /\ proc[sub[c].sid].state = "running") =>
            \A n \in (sub[c].from + 1) .. Len(log[sub[c].sid]) :
                \/ n \in QueueNs(sub[c].sid)
                \/ n \in GotNs(c)
                \/ sub[c].pc = "data" /\ sub[c].item.n = n

(***************************************************************************)
(* C2: once a subscriber of a scan has emitted complete, no subscriber of  *)
(* that scan emits a data event.                                           *)
(***************************************************************************)
C2_NoDataAfterComplete ==
    [][\A c, d \in Subs :
          (sub[c].pc = "closed" /\ Attached(d) /\ sub[d].sid = sub[c].sid)
              => sub'[d].got = sub[d].got]_vars

(***************************************************************************)
(* C3: a subscriber leaves the check of an iteration towards complete      *)
(* exactly when the done it read in that iteration was true and the queue  *)
(* was empty at the check; complete is emitted only from there, and only   *)
(* when the scan's done is true.                                           *)
(***************************************************************************)
C3_CompleteIff ==
    /\ [](\A c \in Subs : sub[c].pc \in {"complete", "closed"} => scans[sub[c].sid].done)
    /\ [][\A c \in Subs :
            /\ (sub[c].pc = "check" /\ sub'[c].pc # "check") =>
                   /\ sub'[c].pc \in {"complete", "get"}
                   /\ sub'[c].pc = "complete" <=>
                          (sub[c].done /\ scans[sub[c].sid].queue = <<>>)
            /\ (sub'[c].ncomplete # sub[c].ncomplete) =>
                   (sub[c].pc = "complete" /\ sub'[c].pc = "closed")
            /\ (sub'[c].pc = "complete" /\ sub[c].pc # "complete") => sub[c].pc = "check"]_vars

\* one subscriber has completed; another is at the check with done read true
\* and a line in the queue, and must go on
C3_Witness ==
    \E c, d \in Subs :
        /\ sub[c].pc = "closed"
        /\ sub[d].pc = "check"
        /\ sub[d].done
        /\ scans[sub[d].sid].queue # <<>>

(***************************************************************************)
(* C10 as claimed: the pair of a progress event is the scan's pair at the  *)
(* moment the event is emitted.                                            *)
(***************************************************************************)
C10_EmittedIsCurrent ==
    [][\A c \in Subs :
          (sub[c].pc = "prog" /\ sub'[c].pc = "check")
              => <<sub[c].prog, sub[c].total>> = PairOf(sub[c].sid)]_vars

(***************************************************************************)
(* C10 amended: the pair of a progress event is the pair read under the    *)
(* lock in the same iteration: always a pair the scan held at one instant  *)
(* (the initial one or that of one stdout line), and the scan's current    *)
(* pair unless the stdout pump has begun an update since that read.        *)
(***************************************************************************)
C10_EmittedIsSnapshot ==
    \A c \in Subs :
        sub[c].pc = "prog" =>
            /\ <<sub[c].prog, sub[c].total>> \in PairsOf(sub[c].sid)
            /\ pump[sub[c].sid].nupd = sub[c].snapUpd
                   => <<sub[c].prog, sub[c].total>> = PairOf(sub[c].sid)

\* a progress event about to leave with a pair the pump has since replaced
C10_Witness ==
    \E c \in Subs :
        /\ sub[c].pc = "prog"
        /\ <<sub[c].prog, sub[c].total>> = <<0, 0>>
        /\ PairOf(sub[c].sid) = <<5, 10>>

(***************************************************************************)
(* C5: the triple GetStatus returns is the scan's triple at one instant:   *)
(* its pair is the initial one or the pair of one stdout line, and with    *)
(* done true it is the final pair.                                         *)
(***************************************************************************)
C5_StatusConsistent ==
    st.pc = "ret" =>
        /\ <<st.progress, st.total>> \in PairsOf(st.sid)
        /\ st.done => <<st.progress, st.total>> = PairOf(st.sid)

(***************************************************************************)
(* C7: once done is true the scan's pair is that of the last stdout line   *)
(* matching the pattern, (0, 0) if none matched, and a GetStatus begun     *)
(* then reports that pair with done true.                                  *)
(***************************************************************************)
RECURSIVE LastPair(_)
LastPair(lines) ==
    IF lines = <<>> THEN <<0, 0>>
    ELSE IF ExpectedPair(lines[Len(lines)]) # <<>> THEN ExpectedPair(lines[Len(lines)])
    ELSE LastPair(SubSeq(lines, 1, Len(lines) - 1))

C7_FinalStatus ==
    /\ \A id \in Registered : scans[id].done => PairOf(id) = LastPair(outSent[id])
    /\ (st.pc = "ret" /\ st.sawDone) =>
           /\ st.done
           /\ <<st.progress, st.total>> = LastPair(outSent[st.sid])

\* the scenario of the specification: "Deploying 1/10", "Deploying 5/10", exit
C7_Witness ==
    /\ st.pc = "ret"
    /\ st.sawDone
    /\ outSent[st.sid] = <<LineDeploy1, LineDeploy5>>
    /\ <<st.progress, st.total, st.done>> = <<5, 10, TRUE>>

(***************************************************************************)
(* C8: when the stdout pump has handled a line, the pair is that of the    *)
(* line if it matches the pattern and the pair of before the line if not;  *)
(* either way the sanitized line is appended to the queue and the pump     *)
(* goes on to read the next line.                                          *)
(***************************************************************************)
C8_LineHandled ==
    [][\A id \in Registered :
          (pump[id].pc = "put" /\ pump'[id].pc # "put") =>
              /\ PairOf(id) = IF ExpectedPair(pump[id].raw) # <<>>
                               THEN ExpectedPair(pump[id].raw)
                               ELSE pump[id].prev
              /\ <<scans'[id].progress, scans'[id].total>> = PairOf(id)
              /\ scans'[id].queue = Append(scans[id].queue,
                     [n |-> Len(log[id]) + 1, src |-> "out",
                      line |-> ExpectedClean(pump[id].raw)])
              /\ log'[id] = Append(log[id], scans'[id].queue[Len(scans'[id].queue)])
              /\ pump'[id].pc = "read"]_vars

\* "Deploying abc/81" is about to be queued and progress is still the (1, 10)
\* of the line before
C8_Witness ==
    \E id \in Registered :
        /\ pump[id].pc = "put"
        /\ pump[id].raw = LineAbc
        /\ pump[id].prev = <<1, 10>>
        /\ PairOf(id) = <<1, 10>>

(***************************************************************************)
(* C4: done goes from false to true only, in the last step of the stdout   *)
(* pump and in no other step; when it is true the process has exited, the  *)
(* stdout pump has met end of stream and every stdout line is in the log   *)
(* of the queue.                                                           *)
(***************************************************************************)
C4_DoneOnce ==
    /\ [](\A id \in Registered :
             scans[id].done =>
                 /\ proc[id].state = "exited"
                 /\ proc[id].stdout = <<>>
                 /\ pump[id].pc = "end"
                 /\ Len(OutLog(id)) = Len(outSent[id])
                 /\ IsPrefixOfSent(OutLog(id), outSent[id]))
    /\ [][\A id \in Registered :
            scans'[id].done # scans[id].done =>
                /\ ~scans[id].done
                /\ scans'[id].done
                /\ pump[id].pc = "done"
                /\ pump'[id].pc = "end"]_vars

\* done is true after a stop, a status and a whole stream of the scan, and
\* with stdout and stderr lines written
C4_Witness ==
    \E id \in Registered :
        /\ scans[id].done
        /\ sp = "stopping"
        /\ proc[id].sigint
        /\ st.pc = "ret" /\ st.sid = id
        /\ sub[1].pc = "closed" /\ sub[1].sid = id
        /\ outSent[id] # <<>>
        /\ errSent[id] # <<>>

(***************************************************************************)
(* C6: under fair scheduling every subscriber of a scan comes to emit      *)
(* complete, emits it once, and does nothing after it.                     *)
(***************************************************************************)
C6_StreamTerminates ==
    /\ \A c \in Subs : Attached(c) ~> (sub[c].pc = "closed")
    /\ [](\A c \in Subs : sub[c].ncomplete <= 1)
    /\ [][\A c \in Subs : sub[c].pc = "closed" => sub'[c] = sub[c]]_vars

\* both subscribers of a stopped scan have completed, each with a line
C6_Witness ==
    /\ sp = "stopping"
    /\ \A c \in Subs : sub[c].pc = "closed" /\ sub[c].ncomplete = 1 /\ sub[c].got # <<>>
    /\ \E id \in Registered : proc[id].sigint

(***************************************************************************)
(* C9: of each stream taken alone, the queue receives the lines in the     *)
(* order the process wrote them, each once, none missing once the pump of  *)
(* the stream has ended; the queue holds the newest of them in that order. *)
(***************************************************************************)
C9_StreamOrder ==
    \A id \in Registered :
        /\ IsPrefixOfSent(OutLog(id), outSent[id])
        /\ IsPrefixOfSent(ErrLog(id), errSent[id])
        /\ pump[id].pc \in {"done", "end"} => Len(OutLog(id)) = Len(outSent[id])
        /\ epump[id].pc = "end" => Len(ErrLog(id)) = Len(errSent[id])
        /\ \A i \in 1 .. Len(log[id]) : log[id][i].n = i
        /\ LET q == scans[id].queue
               k == Len(log[id]) - Len(q)
           IN  k >= 0 /\ \A i \in 1 .. Len(q) : q[i] = log[id][k + i]

\* both pumps have ended after two different lines each, queued alternately
C9_Witness ==
    \E id \in Registered :
        /\ pump[id].pc = "end"
        /\ epump[id].pc = "end"
        /\ outSent[id] = <<LineText, LineDeploy1>>
        /\ errSent[id] = <<LineWarn, LineDeploy3>>
        /\ Len(log[id]) = 4
        /\ log[id][1].src = "err" /\ log[id][2].src = "out"
        /\ log[id][3].src = "err" /\ log[id][4].src = "out"

(***************************************************************************)
(* C11: the steps of a subscriber follow the loop: the bounded wait, then  *)
(* at most one data event, then the snapshot and one progress event, then  *)
(* the check, which leads to the next wait or to the one complete event;   *)
(* a data event is emitted only right after the wait that took its line,   *)
(* so a progress event lies between any two data events; and every         *)
(* iteration begun comes to emit its progress event, with or without a     *)
(* line, so the progress events go on while the queue is empty and done    *)
(* is false.                                                               *)
(***************************************************************************)
C11_LoopShape ==
    /\ [][\A c \in Subs :
            /\ sub'[c].got # sub[c].got =>
                   /\ sub[c].pc = "data"
                   /\ sub'[c].pc = "snap"
                   /\ sub'[c].got = Append(sub[c].got, sub[c].item)
            /\ sub'[c].pc # sub[c].pc =>
                   CASE sub[c].pc = "idle" -> sub'[c].pc \in {"get", "notfound"}
                     [] sub[c].pc = "get" -> sub'[c].pc \in {"data", "snap"}
                     [] sub[c].pc = "data" -> sub'[c].pc = "snap"
                     [] sub[c].pc = "snap" -> sub'[c].pc = "prog"
                     [] sub[c].pc = "prog" -> sub'[c].pc = "check"
                     [] sub[c].pc = "check" -> sub'[c].pc \in {"get", "complete"}
                     [] sub[c].pc = "complete" -> sub'[c].pc = "closed"
                     [] OTHER -> FALSE]_vars
    /\ \A c \in Subs : (sub[c].pc = "get") ~> (sub[c].pc = "check")

\* a progress event has just been emitted in an iteration whose wait timed out,
\* by a subscriber that has emitted no line yet, with the queue empty and done false
C11_Witness ==
    \E c \in Subs :
        /\ sub[c].pc = "check"
        /\ sub[c].got = <<>>
        /\ ~sub[c].done
        /\ ~scans[sub[c].sid].done
        /\ scans[sub[c].sid].queue = <<>>
        /\ \E d \in Subs : sub[d].pc = "check" /\ sub[d].got # <<>>

(***************************************************************************)
(* C12: a step in which StopScan answers for a known scan (the response    *)
(* becomes 'stopping', or the signal reaches the process) answers          *)
(* 'stopping' and changes nothing but the signalled flag of the process:   *)
(* done, the pair, the queue and the registry stay as they are, and so do  *)
(* the pumps; on a process that has exited it changes nothing at all.      *)
(***************************************************************************)
C12_StopFrame ==
    /\ [](sp = "stopping" => Registered # {})
    /\ [][((sp' = "stopping" /\ sp # "stopping")
             \/ \E id \in Registered : proc'[id].sigint # proc[id].sigint) =>
            /\ sp' = "stopping"
            /\ scans' = scans
            /\ log' = log
            /\ pump' = pump
            /\ epump' = epump
            /\ lock' = lock
            /\ \A id \in Registered :
                   /\ [proc'[id] EXCEPT !.sigint = proc[id].sigint] = proc[id]
                   /\ proc[id].state = "exited" => proc'[id] = proc[id]]_vars

\* StopScan has answered 'stopping' only after the process had exited: done is
\* true, the pair is that of the last line and the lines are still in the queue
C12_Witness ==
    \E id \in Registered :
        /\ sp = "stopping"
        /\ ~proc[id].sigint
        /\ scans[id].done
        /\ PairOf(id) = <<5, 10>>
        /\ Len(scans[id].queue) = 3

(***************************************************************************)
(* C13: a request that finds a scan names a registered identifier, so one  *)
(* for an unregistered identifier ends in not-found; the step in which     *)
(* stream, stop or status answers not-found changes nothing of the         *)
(* registry, the scans, the processes and the pumps; a stream request      *)
(* answered not-found has emitted no event and never emits one.            *)
(***************************************************************************)
C13_NotFound ==
    /\ [](\A c \in Subs :
             /\ Attached(c) => sub[c].sid \in Registered
             /\ sub[c].pc = "notfound" => sub[c] = [IdleSub EXCEPT !.pc = "notfound"])
    /\ [](st.pc \in {"progress", "total", "done", "ret"} => st.sid \in Registered)
    /\ [](sp = "stopping" => Registered # {})
    /\ [][((\E c \in Subs : sub'[c].pc = "notfound" /\ sub[c].pc # "notfound")
             \/ (st'.pc = "notfound" /\ st.pc # "notfound")
             \/ (sp' = "notfound" /\ sp # "notfound")) =>
            /\ scans' = scans
            /\ proc' = proc
            /\ pump' = pump
            /\ epump' = epump
            /\ lock' = lock
            /\ log' = log
            /\ resp' = resp]_vars
    /\ [][\A c \in Subs : sub[c].pc = "notfound" => sub'[c] = sub[c]]_vars

\* the three requests have been answered not-found while a scan is running
\* unsignalled with a line in its queue
C13_Witness ==
    /\ sub[1].pc = "notfound"
    /\ st.pc = "notfound"
    /\ sp = "notfound"
    /\ \E id \in Registered :
           /\ proc[id].state = "running"
           /\ ~proc[id].sigint
           /\ scans[id].queue # <<>>

\* a target with a character that strip() keeps
NotBlank(target) ==
    \E i \in 1 .. Len(target) : target[i] \notin {" ", "\t", "\r", "\n", LF}

\* the frame of a StartScan answered with an error, and what is registered
InvalidTargetFrame ==
    /\ [](\A id \in Registered : NotBlank(proc[id].data.target))
    /\ [](resp.kind = "ok" => resp.id \in Registered)
    /\ [](resp.kind = "error" => resp.id = 0)
    /\ [][(resp' # resp /\ resp'.kind = "error") =>
            /\ scans' = scans
            /\ proc' = proc
            /\ pump' = pump
            /\ epump' = epump
            /\ lock' = lock
            /\ log' = log
            /\ outSent' = outSent
            /\ errSent' = errSent]_vars

(***************************************************************************)
(* C14 as claimed: a StartScan whose target is empty or blank answers the  *)
(* error 'target required' and does nothing else: no identifier, no entry  *)
(* of the registry, no process, no pump.                                   *)
(***************************************************************************)
C14_InvalidTargetAsClaimed ==
    /\ InvalidTargetFrame
    /\ [](resp.kind = "error" => resp.error = "target required")

(***************************************************************************)
(* C14 amended: a StartScan whose target is empty or blank answers the     *)
(* error 'target is required' and does nothing else: no identifier, no     *)
(* entry of the registry, no process, no pump.                             *)
(***************************************************************************)
C14_InvalidTarget ==
    /\ InvalidTargetFrame
    /\ [](resp.kind = "error" => resp.error = "target is required")

\* the error has been answered and nothing exists
C14_Witness ==
    /\ resp.kind = "error"
    /\ scans = <<>>
    /\ proc = <<>>
    /\ pump = <<>>
    /\ epump = <<>>

\* the command each skip value must give for the target "h", written out by hand
ExpectedCmd(skip) ==
    <<(<<"p", "y", "t", "h", "o", "n", "3">>), (<<"-", "u">>),
      (<<"r", "a", "p", "i", "d", "s", "c", "a", "n", ".", "p", "y">>), (<<"-", "n">>)>>
    \o (CASE skip = SkipABC -> <<(<<"-", "-", "s", "k", "i", "p">>), (<<"a">>),
                                  (<<"-", "-", "s", "k", "i", "p">>), (<<"b">>),
                                  (<<"-", "-", "s", "k", "i", "p">>), (<<"c">>)>>
           [] skip = SkipLeadComma -> <<(<<"-", "-", "s", "k", "i", "p">>), (<<"a">>)>>
           [] skip = SkipPadded -> <<(<<"-", "-", "s", "k", "i", "p">>), (<<"x">>)>>
           [] OTHER -> <<>>)
    \o <<(<<"h">>)>>

(***************************************************************************)
(* C16: the command of every scan is python3 -u rapidscan.py -n, then one  *)
(* --skip <token> pair per non-empty token of the skip list split on runs  *)
(* of commas and white space, in order, then the target.                   *)
(***************************************************************************)
C16_Command ==
    \A id \in Registered : proc[id].cmd = ExpectedCmd(proc[id].data.skip)

\* the scan of 'a, b  c' has three pairs, in order, before the target
C16_Witness ==
    \E id \in Registered :
        /\ proc[id].data.skip = SkipABC
        /\ Len(proc[id].cmd) = 11
        /\ <<proc[id].cmd[6], proc[id].cmd[8], proc[id].cmd[10]>> = <<(<<"a">>), (<<"b">>), (<<"c">>)>>
        /\ proc[id].cmd[11] = <<"h">>
        /\ proc[id].state = "exited"

(***************************************************************************)
(* C15: the key set of the registry only grows, and only by the            *)
(* identifier a successful StartScan returns, which was not a key before;  *)
(* every key has one scan with its process and its two pumps; a key keeps  *)
(* its scan: the command stays, a process that has exited stays exited, a  *)
(* pump that has ended stays ended and done stays true.                    *)
(***************************************************************************)
C15_Registry ==
    /\ [](/\ DOMAIN proc = Registered
          /\ DOMAIN pump = Registered
          /\ DOMAIN epump = Registered
          /\ resp.kind = "ok" => resp.id \in Registered)
    /\ [][/\ Registered \subseteq DOMAIN scans'
          /\ DOMAIN scans' # Registered =>
                 /\ resp'.kind = "ok"
                 /\ resp'.id \notin Registered
                 /\ DOMAIN scans' = Registered \cup {resp'.id}
          /\ (resp' # resp /\ resp'.kind = "ok") => DOMAIN scans' # Registered
          /\ \A id \in Registered :
                 /\ proc'[id].cmd = proc[id].cmd
                 /\ proc'[id].data = proc[id].data
                 /\ proc[id].state = "exited" => proc'[id].state = "exited"
                 /\ proc[id].sigint => proc'[id].sigint
                 /\ pump[id].pc = "end" => pump'[id].pc = "end"
                 /\ epump[id].pc = "end" => epump'[id].pc = "end"
                 /\ scans[id].done => scans'[id].done]_vars

\* a second scan has been started after the first was streamed to its end,
\* polled and stopped, and after requests for an unknown identifier
C15_Witness ==
    /\ Registered = {1, 2}
    /\ resp = [kind |-> "ok", id |-> 2, error |-> ""]
    /\ scans[1].done
    /\ ~scans[2].done
    /\ sub[1].pc = "closed" /\ sub[1].sid = 1
    /\ st.pc = "ret" /\ st.sid = 1
    /\ sp = "notfound"
    /\ proc[1].sigint

(***************************************************************************)
(* C17: a step of the stderr pump leaves progress, total and done of its   *)
(* scan, the lock and the stdout pump as they are, whatever the line and   *)
(* at end of stream; the pair changes only in the two writes of the stdout *)
(* pump, so outside an update it is the initial pair or that of a stdout   *)
(* line, never that of a stderr line.                                      *)
(***************************************************************************)
C17_ErrPumpFrame ==
    /\ [](\A id \in Registered : lock = Free => PairOf(id) \in PairsOf(id))
    /\ [][\A id \in Registered :
            /\ epump'[id] # epump[id] =>
                   /\ scans'[id].progress = scans[id].progress
                   /\ scans'[id].total = scans[id].total
                   /\ scans'[id].done = scans[id].done
                   /\ lock' = lock
                   /\ pump' = pump
            /\ <<scans'[id].progress, scans'[id].total>> # PairOf(id) =>
                   /\ pump[id].pc \in {"progress", "total"}
                   /\ pump'[id].pc # pump[id].pc
                   /\ epump' = epump]_vars

\* the stderr pump has queued "Deploying 3/81 | foo" and ended, and the pair is
\* the (1, 10) of the stdout line
C17_Witness ==
    \E id \in Registered :
        /\ epump[id].pc = "end"
        /\ errSent[id] = <<LineWarn, LineDeploy3>>
        /\ Len(ErrLog(id)) = 2
        /\ PairOf(id) = <<1, 10>>
        /\ scans[id].done

(***************************************************************************)
(* C18: the only subscriber of a scan, attached before any line was        *)
(* queued, has emitted every line the process wrote to stdout and stderr   *)
(* when it has emitted complete; so no line is queued after it has closed. *)
(***************************************************************************)
C18_AllLinesDelivered ==
    \A c \in Subs :
        (sub[c].pc = "closed" /\ sub[c].from = 0) =>
            /\ Len(sub[c].got) = Len(outSent[sub[c].sid]) + Len(errSent[sub[c].sid])
            /\ Len(log[sub[c].sid]) = Len(sub[c].got)

\* the items subscriber c has taken from the queue: those emitted, then the one in hand
Taken(c) == sub[c].got \o (IF sub[c].pc = "data" THEN <<sub[c].item>> ELSE <<>>)

\* the number of items the subscribers of cs attached to scan id have taken
RECURSIVE TakenCount(_, _)
TakenCount(id, cs) ==
    IF cs = {} THEN 0
    ELSE LET c == CHOOSE x \in cs : TRUE
         IN  (IF Attached(c) /\ sub[c].sid = id THEN Len(Taken(c)) ELSE 0)
                 + TakenCount(id, cs \ {c})

(***************************************************************************)
(* C19: of every scan, the items its pumps have queued are those still in  *)
(* the queue and those the subscribers of that scan have taken, each       *)
(* counted once; what a subscriber has taken are items of the log of its   *)
(* own scan, and no item has been taken twice, by one subscriber or by     *)
(* two.                                                                    *)
(***************************************************************************)
C19_AtMostOnce ==
    /\ \A id \in Registered :
           Len(scans[id].queue) + TakenCount(id, Subs) = Len(log[id])
    /\ \A c \in Subs :
           Attached(c) =>
               \A i \in 1 .. Len(Taken(c)) :
                   /\ Taken(c)[i].n \in 1 .. Len(log[sub[c].sid])
                   /\ Taken(c)[i] = log[sub[c].sid][Taken(c)[i].n]
                   /\ Taken(c)[i].n \notin QueueNs(sub[c].sid)
    /\ \A c, d \in Subs :
           (Attached(c) /\ Attached(d) /\ sub[c].sid = sub[d].sid) =>
               \A i \in 1 .. Len(Taken(c)), j \in 1 .. Len(Taken(d)) :
                   (c # d \/ i # j) => Taken(c)[i].n # Taken(d)[j].n

\* two scans, each streamed to its end by its own subscriber: the line of the
\* one scan has gone to its subscriber and not to the other's
C19_Witness ==
    \E c, d \in Subs :
        /\ sub[c].pc = "closed" /\ sub[d].pc = "closed"
        /\ sub[c].sid # sub[d].sid
        /\ Len(sub[c].got) = 1
        /\ sub[d].got = <<>>
        /\ log[sub[d].sid] = <<>>

(***************************************************************************)
(* C20: the lock is free, or held by the stdout pump of a scan between its *)
(* two writes of the pair, where the pump's next step is enabled and       *)
(* releases it; while it is held no thread acquires it, and the holder's   *)
(* step reads no line, queues nothing and waits for nothing; when it is    *)
(* free every thread at a `with lock:` can enter.  So a thread holding or  *)
(* requesting the lock can always proceed.                                 *)
(***************************************************************************)
C20_LockDiscipline ==
    /\ [](lock # Free =>
             /\ lock[1] = "out"
             /\ lock[2] \in Registered
             /\ pump[lock[2]].pc = "total"
             /\ ENABLED PumpTotal(lock[2]))
    /\ [](lock = Free =>
             /\ \A id \in Registered :
                    /\ pump[id].pc = "progress" => ENABLED PumpProgress(id)
                    /\ pump[id].pc = "done" => ENABLED PumpDone(id)
             /\ \A c \in Subs : sub[c].pc = "snap" => ENABLED SubSnap(c))
    /\ [][lock # Free =>
            /\ lock' \in {lock, Free}
            /\ pump'[lock[2]] # pump[lock[2]] =>
                   /\ lock' = Free
                   /\ proc' = proc
                   /\ log' = log
                   /\ \A id \in Registered : scans'[id].queue = scans[id].queue]_vars

\* the stdout pump of one scan holds the lock while a subscriber of another
\* scan is at its snapshot and the other subscriber is emitting a line
C20_Witness ==
    \E c, d \in Subs :
        /\ lock # Free
        /\ sub[c].pc = "snap"
        /\ sub[c].sid # lock[2]
        /\ sub[d].pc = "get"
        /\ sub[d].sid = lock[2]

====
